---- MODULE Spec2Model ----
(***************************************************************************)
(* Remote process supervision of highnet/moltworker: the R2 mount check    *)
(* (src/gateway/r2.ts, src/gateway/sync.ts) and the debug routes           *)
(* (src/routes/debug.ts), run against a sandbox backend that owns the      *)
(* process handles.                                                        *)
(*                                                                         *)
(* Text is a sequence of one-character strings.  An optional value (a      *)
(* JavaScript value that may be undefined) is <<>> when absent and <<v>>   *)
(* when present.  An asynchronous function is cut at its awaits: each      *)
(* action is the synchronous code between two awaits, and the backend may  *)
(* step in between.                                                        *)
(***************************************************************************)
EXTENDS Integers, Sequences, FiniteSets, TLC

VARIABLES
    op,         \* the public operation in progress, "idle" when none
    pc,         \* its position: entry, poll, sleep, logs, respond, done
    env,        \* the worker environment bindings of the call
    proc,       \* the backend's handle of the process this call started
    attempts,   \* the local `attempts` counter of the poll loop
    waits,      \* history: timed waits (setTimeout) performed by the call
    seen,       \* history: statuses read from proc.status, in order
    logs,       \* the log snapshot getLogs resolved with, <<>> before
    thrown,     \* history: what a remote call of this call rejected with
    calls,      \* history: remote calls issued by the call
    result,     \* what the operation returned
    listed,     \* /debug/processes: what listProcesses resolved with
    includeLogs,\* /debug/processes: the ?logs=true query flag
    pending,    \* /debug/processes: the handles whose getLogs is in flight
    processData,\* /debug/processes: the array Promise.all fills
    fetched,    \* history: how the getLogs of each listed handle settled
    reordered,  \* history: a getLogs settled before one issued earlier
    query,      \* /debug/logs: the ?id= query parameter, <<>> when absent
    found,      \* /debug/logs: the handle whose logs are fetched, <<>> if none
    prior,      \* history: what the previous mount check saw and returned
    other       \* a second isR2Mounted call running concurrently, <<>> if none

vars == <<op, pc, env, proc, attempts, waits, seen, logs, thrown, calls,
          result, listed, includeLogs, pending, processData, fetched,
          reordered, query, found, prior, other>>

callVars == <<env, proc, attempts, waits, seen, logs>>
NoLogs == <<>>
listVars == <<listed, includeLogs, pending, processData, fetched, reordered>>
routeVars == <<query, found, prior, other>>

----------------------------------------------------------------------------
(* Text *)

Marker == <<"t", "i", "g", "r", "i", "s", "f", "s">>

TigrisfsMount ==
    <<"t", "i", "g", "r", "i", "s", "f", "s", " ", "o", "n", " ", "/", "d",
      "a", "t", "a", "/", "m", "o", "l", "t", "b", "o", "t", " ", "t", "y",
      "p", "e", " ", "f", "u", "s", "e", ".", "t", "i", "g", "r", "i", "s",
      "f", "s", "\n">>

S3fsMount ==
    <<"s", "3", "f", "s", " ", "o", "n", " ", "/", "d", "a", "t", "a", "/",
      "m", "o", "l", "t", "b", "o", "t", " ", "t", "y", "p", "e", " ", "f",
      "u", "s", "e", ".", "s", "3", "f", "s", "\n">>

UpperMount ==
    <<"T", "I", "G", "R", "I", "S", "F", "S", " ", "o", "n", " ", "/", "d",
      "a", "t", "a", "/", "m", "o", "l", "t", "b", "o", "t", "\n">>

PartialMount == <<"t", "i", "g", "r", "i", "s">>

EmptyText == <<>>

\* What `mount | grep "tigrisfs on /data/moltbot"` may have written so far.
MountOutputs == {EmptyText, TigrisfsMount, S3fsMount, UpperMount, PartialMount}

\* What an arbitrary CLI command may have written so far.
VersionOutputs == {EmptyText, <<"\n">>, <<"v", "1", "\n">>}
CliOutputs == {EmptyText, <<"o", "k">>}

\* What `cat /root/.clawdbot/clawdbot.json` may have written so far.
ConfigOutputs ==
    {EmptyText, <<"{">>, <<"{", "}">>, <<"{", "}", "\n">>,
     <<"n", "u", "l", "l">>, <<"0">>}

\* String.prototype.includes: needle occurs in hay as a contiguous run.
Includes(hay, needle) ==
    \E i \in 1..(Len(hay) - Len(needle) + 1) :
        SubSeq(hay, i, i + Len(needle) - 1) = needle

\* JavaScript truthiness of a string.
Truthy(s) == s # EmptyText

----------------------------------------------------------------------------
(* Environment bindings *)

CredValues == {<<>>, <<"">>, <<"key123">>}

\* !env.X : undefined and the empty string are falsy.
Falsy(c) == c = <<>> \/ c = <<"">>

Envs == [R2_ACCESS_KEY_ID : CredValues,
         R2_SECRET_ACCESS_KEY : CredValues,
         CF_ACCOUNT_ID : CredValues]

NoEnv == [R2_ACCESS_KEY_ID |-> <<>>, R2_SECRET_ACCESS_KEY |-> <<>>,
          CF_ACCOUNT_ID |-> <<>>]

\* The credential test of mountR2Storage with one operand forgotten.
MountCredsMissingNoAccount(e) ==
    Falsy(e.R2_ACCESS_KEY_ID) \/ Falsy(e.R2_SECRET_ACCESS_KEY)

MountCredsMissing(e) ==
    Falsy(e.R2_ACCESS_KEY_ID) \/ Falsy(e.R2_SECRET_ACCESS_KEY)
        \/ Falsy(e.CF_ACCOUNT_ID)

SyncCredsMissing(e) ==
    Falsy(e.R2_ACCESS_KEY_ID) \/ Falsy(e.R2_SECRET_ACCESS_KEY)
        \/ Falsy(e.CF_ACCOUNT_ID)

----------------------------------------------------------------------------
(* The sandbox backend *)

Statuses == {"starting", "running", "completed", "failed"}
Terminal == {"completed", "failed"}

ErrText == <<"e", "r", "r">>

NoProc == [status |-> "none", stdout |-> EmptyText, stderr |-> EmptyText,
           exitCode |-> <<>>]

ExitCodeOf(st) ==
    IF st = "completed" THEN <<0>> ELSE IF st = "failed" THEN <<1>> ELSE <<>>

\* The handles startProcess may resolve with: a command may already have
\* run to its end, one that has not begun has written nothing, and only a
\* failed one has written to stderr.
NewHandles(outs) ==
    {h \in [status : Statuses, stdout : outs, stderr : {EmptyText, ErrText},
            exitCode : {<<>>, <<0>>, <<1>>}] :
        /\ h.exitCode = ExitCodeOf(h.status)
        /\ h.status = "starting" => h.stdout = EmptyText
        /\ h.status # "failed" => h.stderr = EmptyText}

\* What a rejected remote call rejects with: an Error with a message, or a
\* value that is no Error.
Messages == {"Command failed", "Process failed", ""}
Rejections ==
    {[isError |-> TRUE, message |-> m] : m \in Messages}
        \cup {[isError |-> FALSE, message |-> "not an Error"]}

Outputs(o) ==
    IF o \in {"isR2Mounted", "mountR2Storage", "syncToR2"} THEN MountOutputs
    ELSE IF o = "containerConfig" THEN ConfigOutputs
    ELSE IF o = "version" THEN VersionOutputs
    ELSE CliOutputs

IsPrefix(a, b) == Len(a) <= Len(b) /\ SubSeq(b, 1, Len(a)) = a

----------------------------------------------------------------------------
(* Results *)

NoCalls == [startProcess |-> 0, status |-> 0, getLogs |-> 0]
NoResult == [kind |-> "none"]

BoolResult(b) == [kind |-> "bool", value |-> b]

\* error instanceof Error ? error.message : 'Unknown error'
ErrorMessage(r) == IF r.isError THEN r.message ELSE "Unknown error"

SyncNotConfigured ==
    [kind |-> "sync", success |-> FALSE,
     error |-> "R2 storage is not configured"]

SyncMounted ==
    [kind |-> "sync", success |-> TRUE,
     lastSync |-> "live (FUSE mount active)",
     details |-> "Data is written directly to R2 via FUSE mount"]

SyncNotMounted ==
    [kind |-> "sync", success |-> FALSE,
     error |-> "R2 FUSE mount not active",
     details |-> "The container may need to be restarted to mount R2"]

\* The catch block of syncToR2 with the message dropped.
SyncCheckFailedNoMessage(r) ==
    [kind |-> "sync", success |-> FALSE,
     error |-> "Failed to check mount status",
     details |-> "Unknown error"]

\* The catch block of syncToR2 answering as if the marker were absent.
SyncCheckFailedAsNotMounted(r) == SyncNotMounted

SyncCheckFailed(r) ==
    [kind |-> "sync", success |-> FALSE,
     error |-> "Failed to check mount status",
     details |-> ErrorMessage(r)]

\* The verdict of isR2Mounted on "stdout has content" alone.
IsR2MountedVerdictAnyOutput(l) == Truthy(l.stdout)

\* The verdict of isR2Mounted with a module-level flag: once a check has
\* been answered, "mounted" is not reported again.
IsR2MountedVerdictOnce(l) ==
    prior = <<>> /\ Truthy(l.stdout) /\ Includes(l.stdout, Marker)

IsR2MountedVerdict(l) == Truthy(l.stdout) /\ Includes(l.stdout, Marker)

SyncToR2Verdict(l) == Truthy(l.stdout) /\ Includes(l.stdout, Marker)

\* logs.stdout || ''
OrEmpty(s) == IF Truthy(s) THEN s ELSE EmptyText

\* The /debug/cli body reporting 'running' whenever the loop ran out of
\* attempts.
CliResponseRunningOnTimeout(l, h, n) ==
    [kind |-> "json", code |-> 200,
     status |-> IF n = 30 THEN "running" ELSE h.status,
     exitCode |-> h.exitCode, attempts |-> n,
     stdout |-> OrEmpty(l.stdout), stderr |-> OrEmpty(l.stderr)]

CliResponse(l, h, n) ==
    [kind |-> "json", code |-> 200, status |-> h.status,
     exitCode |-> h.exitCode, attempts |-> n,
     stdout |-> OrEmpty(l.stdout), stderr |-> OrEmpty(l.stderr)]

ErrorResponse(r) == [kind |-> "json", code |-> 500, error |-> ErrorMessage(r)]

\* JSON.parse on the texts of ConfigOutputs: surrounding white space is
\* skipped, then the text is a literal, a number or an empty object/array.
JsonWhitespace == {" ", "\n", "\t", "\r"}
Digits == <<"0", "1", "2", "3", "4", "5", "6", "7", "8", "9">>

RECURSIVE TrimLeft(_)
TrimLeft(s) ==
    IF s # <<>> /\ Head(s) \in JsonWhitespace THEN TrimLeft(Tail(s)) ELSE s

RECURSIVE TrimRight(_)
TrimRight(s) ==
    IF s # <<>> /\ s[Len(s)] \in JsonWhitespace
    THEN TrimRight(SubSeq(s, 1, Len(s) - 1)) ELSE s

IsDigit(c) == \E d \in 1..10 : Digits[d] = c
DigitValue(c) == (CHOOSE d \in 1..10 : Digits[d] = c) - 1

RECURSIVE NumberValue(_)
NumberValue(s) ==
    IF s = <<>> THEN 0
    ELSE 10 * NumberValue(SubSeq(s, 1, Len(s) - 1)) + DigitValue(s[Len(s)])

IsJsonNumber(s) ==
    /\ s # <<>>
    /\ \A i \in 1..Len(s) : IsDigit(s[i])
    /\ Len(s) > 1 => s[1] # "0"

JsNull == [type |-> "null"]

JsonParse(text) ==
    LET t == TrimRight(TrimLeft(text)) IN
    IF t = <<"n", "u", "l", "l">> THEN [ok |-> TRUE, value |-> JsNull]
    ELSE IF t = <<"t", "r", "u", "e">>
        THEN [ok |-> TRUE, value |-> [type |-> "boolean", v |-> TRUE]]
    ELSE IF t = <<"f", "a", "l", "s", "e">>
        THEN [ok |-> TRUE, value |-> [type |-> "boolean", v |-> FALSE]]
    ELSE IF IsJsonNumber(t)
        THEN [ok |-> TRUE, value |-> [type |-> "number", v |-> NumberValue(t)]]
    ELSE IF Len(t) >= 2 /\ t[1] = "{" /\ t[Len(t)] = "}"
            /\ TrimLeft(SubSeq(t, 2, Len(t) - 1)) = <<>>
        THEN [ok |-> TRUE, value |-> [type |-> "object"]]
    ELSE IF Len(t) >= 2 /\ t[1] = "[" /\ t[Len(t)] = "]"
            /\ TrimLeft(SubSeq(t, 2, Len(t) - 1)) = <<>>
        THEN [ok |-> TRUE, value |-> [type |-> "array"]]
    ELSE [ok |-> FALSE, value |-> JsNull]

\* JavaScript truthiness of a parsed JSON value.
TruthyValue(v) ==
    IF v.type = "null" THEN FALSE
    ELSE IF v.type = "boolean" THEN v.v
    ELSE IF v.type = "number" THEN v.v # 0
    ELSE TRUE

\* The body of /debug/container-config keeping the raw text only when
\* JSON.parse threw.
ConfigResponseRawOnParseError(l, h) ==
    LET stdout == OrEmpty(l.stdout)
        parsed == JsonParse(stdout)
        config == IF parsed.ok THEN parsed.value ELSE JsNull
    IN  [kind |-> "json", code |-> 200, status |-> h.status,
         exitCode |-> h.exitCode, config |-> config,
         raw |-> IF parsed.ok THEN <<>> ELSE <<stdout>>,
         stderr |-> OrEmpty(l.stderr)]

ConfigResponse(l, h) ==
    LET stdout == OrEmpty(l.stdout)
        parsed == JsonParse(stdout)
        config == IF parsed.ok THEN parsed.value ELSE JsNull
    IN  [kind |-> "json", code |-> 200, status |-> h.status,
         exitCode |-> h.exitCode, config |-> config,
         raw |-> IF TruthyValue(config) THEN <<>> ELSE <<stdout>>,
         stderr |-> OrEmpty(l.stderr)]

\* String.prototype.trim(): the whitespace at both ends goes.
Trim(s) == TrimRight(TrimLeft(s))

\* The clawdbot version taken from stdout alone.
ClawdbotVersionStdoutOnly(l) == Trim(OrEmpty(l.stdout))

\* (versionLogs.stdout || versionLogs.stderr || '').trim()
ClawdbotVersion(l) ==
    Trim(IF Truthy(l.stdout) THEN l.stdout ELSE OrEmpty(l.stderr))

\* (nodeLogs.stdout || '').trim()
NodeVersion(l) == Trim(OrEmpty(l.stdout))

VersionResponse(l, m) ==
    [kind |-> "json", code |-> 200, clawdbot_version |-> ClawdbotVersion(l),
     node_version |-> NodeVersion(m)]

\* The catch block of /debug/version.
VersionErrorResponse(r) ==
    [kind |-> "json", code |-> 500, status |-> "error",
     message |-> <<"Failed to get version info: ", ErrorMessage(r)>>]

\* The operations without their catch blocks: the rejection reaches the
\* caller.
OnRejectUncaught(o, r) == [kind |-> "rejected", error |-> r]

\* What each operation returns when a remote call rejects with r.
OnReject(o, r) ==
    IF o \in {"isR2Mounted", "mountR2Storage"} THEN BoolResult(FALSE)
    ELSE IF o = "syncToR2" THEN SyncCheckFailed(r)
    ELSE IF o = "version" THEN VersionErrorResponse(r)
    ELSE ErrorResponse(r)

\* What each operation returns once its log snapshot is in.
Response(o, l, h, n) ==
    IF o \in {"isR2Mounted", "mountR2Storage"}
        THEN BoolResult(IsR2MountedVerdict(l))
    ELSE IF o = "syncToR2"
        THEN IF SyncToR2Verdict(l) THEN SyncMounted ELSE SyncNotMounted
    ELSE IF o = "cli" THEN CliResponse(l, h, n)
    ELSE ConfigResponse(l, h)

----------------------------------------------------------------------------
(* Poll loops *)

MountMaxAttempts == 10
CliMaxAttempts == 30
ConfigMaxAttempts == 10
MountWaitMs == 200
CliWaitMs == 500
ConfigWaitMs == 200
SyncTimeoutMs == 5000
WaitForProcessPollMs == 500

MountOps == {"isR2Mounted", "mountR2Storage"}
EnvOps == {"mountR2Storage", "syncToR2"}
PollOps == {"isR2Mounted", "mountR2Storage", "syncToR2", "cli",
            "containerConfig"}
CallOps == PollOps \cup {"version"}
VersionWaitMs == 500

\* The loop test of isR2Mounted with the status operand forgotten.
IsR2MountedWaitsAnyStatus(st, n) == n < MountMaxAttempts

\* while (proc.status === 'running' && attempts < 10) of isR2Mounted
IsR2MountedWaits(st, n) == st = "running" /\ n < MountMaxAttempts

\* waitForProcess(proc, 5000): waits while the status is not terminal and
\* the budget is not spent.
WaitForProcessWaits(st, n) ==
    st \in {"running", "starting"} /\ n * WaitForProcessPollMs < SyncTimeoutMs

\* while (attempts < 30) of /debug/cli, while (attempts < 10) of
\* /debug/container-config
\* The loop test of /debug/cli letting one more round through.
CliLoopsOneMore(n) == n <= CliMaxAttempts

CliLoops(n) == n < CliMaxAttempts
ConfigLoops(n) == n < ConfigMaxAttempts

\* The break of /debug/cli taken on a finished process only.
CliBreaksOnTerminal(st) == st \notin {"running", "starting"}

\* if (proc.status !== 'running') break;
CliBreaks(st) == st # "running"
ConfigBreaks(st) == st # "running"

WaitMs(o) ==
    IF o \in MountOps THEN MountWaitMs
    ELSE IF o = "syncToR2" THEN WaitForProcessPollMs
    ELSE IF o = "cli" THEN CliWaitMs
    ELSE IF o = "version" THEN VersionWaitMs
    ELSE ConfigWaitMs

----------------------------------------------------------------------------
(* The state after construction: no call in progress *)

Init ==
    /\ op = "idle"
    /\ pc = "idle"
    /\ env = NoEnv
    /\ proc = NoProc
    /\ attempts = 0
    /\ waits = 0
    /\ seen = <<>>
    /\ logs = NoLogs
    /\ thrown = <<>>
    /\ calls = NoCalls
    /\ result = NoResult
    /\ listed = <<>>
    /\ includeLogs = FALSE
    /\ pending = {}
    /\ processData = <<>>
    /\ fetched = <<>>
    /\ reordered = FALSE
    /\ query = <<>>
    /\ found = <<>>
    /\ prior = <<>>
    /\ other = <<>>

Issued(c) == [calls EXCEPT ![c] = @ + 1]

----------------------------------------------------------------------------
(* isR2Mounted, mountR2Storage, syncToR2, /debug/cli, /debug/container-config *)

\* A caller invokes operation o; the operations that take env get e.
Call(o, e) ==
    /\ pc = "idle"
    /\ op' = o
    /\ env' = e
    /\ pc' = "entry"
    /\ UNCHANGED <<routeVars, thrown, proc, attempts, waits, seen, logs, calls, result, listVars>>

\* mountR2Storage: if (!env.R2_ACCESS_KEY_ID || ...) return false;
MountR2StorageNotConfigured ==
    /\ pc = "entry"
    /\ op = "mountR2Storage"
    /\ MountCredsMissing(env)
    /\ result' = BoolResult(FALSE)
    /\ pc' = "done"
    /\ UNCHANGED <<routeVars, thrown, op, callVars, calls, listVars>>

\* syncToR2: if (!env.R2_ACCESS_KEY_ID || ...) return { success: false, ... };
SyncToR2NotConfigured ==
    /\ pc = "entry"
    /\ op = "syncToR2"
    /\ SyncCredsMissing(env)
    /\ result' = SyncNotConfigured
    /\ pc' = "done"
    /\ UNCHANGED <<routeVars, thrown, op, callVars, calls, listVars>>

\* The remote check entered without the credential test.
ConfiguredUnchecked == TRUE

Configured ==
    /\ op = "mountR2Storage" => ~MountCredsMissing(env)
    /\ op = "syncToR2" => ~SyncCredsMissing(env)

\* await sandbox.startProcess(...) resolves with a handle.
StartProcessResolves ==
    /\ pc = "entry"
    /\ op \in PollOps
    /\ Configured
    /\ \E h \in NewHandles(Outputs(op)) : proc' = h
    /\ calls' = Issued("startProcess")
    /\ attempts' = 0
    /\ pc' = "poll"
    /\ UNCHANGED <<routeVars, thrown, op, env, waits, seen, logs, result, listVars>>

\* await sandbox.startProcess(...) rejects: the catch block of the operation.
StartProcessRejects ==
    /\ pc = "entry"
    /\ op \in PollOps
    /\ Configured
    /\ \E r \in Rejections :
        /\ result' = OnReject(op, r)
        /\ thrown' = <<[call |-> "startProcess", error |-> r]>>
    /\ calls' = Issued("startProcess")
    /\ pc' = "done"
    /\ UNCHANGED <<routeVars, op, callVars, listVars>>

\* The loop test of isR2Mounted: it reads proc.status before any wait.
IsR2MountedTest ==
    /\ pc = "poll"
    /\ op \in MountOps
    /\ seen' = Append(seen, proc.status)
    /\ calls' = Issued("status")
    /\ pc' = IF IsR2MountedWaits(proc.status, attempts) THEN "sleep" ELSE "logs"
    /\ UNCHANGED <<routeVars, thrown, op, env, proc, attempts, waits, logs, result, listVars>>

\* The loop test of waitForProcess, which syncToR2 awaits.
WaitForProcessTest ==
    /\ pc = "poll"
    /\ op = "syncToR2"
    /\ seen' = Append(seen, proc.status)
    /\ calls' = Issued("status")
    /\ pc' = IF WaitForProcessWaits(proc.status, attempts) THEN "sleep"
             ELSE "logs"
    /\ UNCHANGED <<routeVars, thrown, op, env, proc, attempts, waits, logs, result, listVars>>

\* await new Promise(r => setTimeout(r, 200)); attempts++; of isR2Mounted
IsR2MountedWakes ==
    /\ pc = "sleep"
    /\ op \in MountOps
    /\ waits' = waits + 1
    /\ attempts' = attempts + 1
    /\ pc' = "poll"
    /\ UNCHANGED <<routeVars, thrown, op, env, proc, seen, logs, calls, result, listVars>>

\* The wait of waitForProcess between two tests.
WaitForProcessWakes ==
    /\ pc = "sleep"
    /\ op = "syncToR2"
    /\ waits' = waits + 1
    /\ attempts' = attempts + 1
    /\ pc' = "poll"
    /\ UNCHANGED <<routeVars, thrown, op, env, proc, seen, logs, calls, result, listVars>>

\* A loop that waits first and reads proc.status after the wait: its test
\* reads no status.
LoopTest(o, loops) ==
    /\ pc = "poll"
    /\ op = o
    /\ pc' = IF loops THEN "sleep" ELSE "logs"
    /\ UNCHANGED <<routeVars, thrown, op, callVars, calls, result, listVars>>

\* await new Promise(r => setTimeout(r, ...));
\* if (proc.status !== 'running') break; attempts++;
LoopWakes(o, breaks) ==
    /\ pc = "sleep"
    /\ op = o
    /\ waits' = waits + 1
    /\ seen' = Append(seen, proc.status)
    /\ calls' = Issued("status")
    /\ IF breaks
       THEN pc' = "logs" /\ attempts' = attempts
       ELSE pc' = "poll" /\ attempts' = attempts + 1
    /\ UNCHANGED <<routeVars, thrown, op, env, proc, logs, result, listVars>>

\* /debug/cli: while (attempts < 30) { wait 500 ms; break unless running }
CliLoopTest == LoopTest("cli", CliLoops(attempts))
CliWakes == LoopWakes("cli", CliBreaks(proc.status))

\* /debug/container-config: while (attempts < 10) { wait 200 ms; ... }
ConfigLoopTest == LoopTest("containerConfig", ConfigLoops(attempts))
ConfigWakes == LoopWakes("containerConfig", ConfigBreaks(proc.status))

\* getLogs on a handle kept in a module-level variable, which a concurrent
\* call that started its process later has overwritten.
GetLogsResolvesSharedHandle ==
    /\ pc = "logs"
    /\ LET h == IF other # <<>> /\ other[1].proc.status # "none"
                THEN other[1].proc ELSE proc
       IN  logs' = <<[stdout |-> h.stdout, stderr |-> h.stderr]>>
    /\ calls' = Issued("getLogs")
    /\ pc' = "respond"
    /\ UNCHANGED <<routeVars, thrown, op, env, proc, attempts, waits, seen, result,
                   listVars>>

\* await proc.getLogs() resolves with a snapshot of the handle's output.
GetLogsResolves ==
    /\ pc = "logs"
    /\ logs' = <<[stdout |-> proc.stdout, stderr |-> proc.stderr]>>
    /\ calls' = Issued("getLogs")
    /\ pc' = "respond"
    /\ UNCHANGED <<routeVars, thrown, op, env, proc, attempts, waits, seen, result, listVars>>

\* await proc.getLogs() rejects: the catch block of the operation.
GetLogsRejects ==
    /\ pc = "logs"
    /\ \E r \in Rejections :
        /\ result' = OnReject(op, r)
        /\ thrown' = <<[call |-> "getLogs", error |-> r]>>
    /\ calls' = Issued("getLogs")
    /\ pc' = "done"
    /\ UNCHANGED <<routeVars, op, callVars, listVars>>

\* The code after the log snapshot with a clean-up added: a process that is
\* still running is killed before the operation answers.
RespondKilling ==
    /\ pc = "respond"
    /\ op \in PollOps
    /\ result' = Response(op, logs[1], proc, attempts)
    /\ proc' = IF proc.status = "running"
               THEN [proc EXCEPT !.status = "failed", !.exitCode = <<1>>]
               ELSE proc
    /\ pc' = "done"
    /\ UNCHANGED <<routeVars, thrown, op, env, attempts, waits, seen, logs, calls,
                   listVars>>

\* The code after the log snapshot: the verdict, or the JSON body, which
\* reads proc.status and proc.exitCode as they are now.
Respond ==
    /\ pc = "respond"
    /\ op \in PollOps
    /\ result' = Response(op, logs[1], proc, attempts)
    /\ pc' = "done"
    /\ UNCHANGED <<routeVars, thrown, op, callVars, calls, listVars>>

\* The caller takes the result; nothing is kept between calls.
Return ==
    /\ pc = "done"
    /\ op \in CallOps
    /\ op' = "idle"
    /\ pc' = "idle"
    /\ env' = NoEnv
    /\ proc' = NoProc
    /\ attempts' = 0
    /\ waits' = 0
    /\ seen' = <<>>
    /\ logs' = NoLogs
    /\ thrown' = <<>>
    /\ calls' = NoCalls
    /\ result' = NoResult
    /\ UNCHANGED <<listVars, routeVars>>

----------------------------------------------------------------------------
(* GET /debug/version: clawdbot --version, then node --version *)

\* await sandbox.startProcess('clawdbot --version' | 'node --version')
VersionStartProcessResolves ==
    /\ op = "version"
    /\ pc \in {"entry", "nodeEntry"}
    /\ \E h \in NewHandles(Outputs(op)) : proc' = h
    /\ calls' = Issued("startProcess")
    /\ pc' = "versionSleep"
    /\ UNCHANGED <<routeVars, thrown, op, env, attempts, waits, seen, logs, result,
                   listVars>>

VersionStartProcessRejects ==
    /\ op = "version"
    /\ pc \in {"entry", "nodeEntry"}
    /\ \E r \in Rejections :
        /\ result' = OnReject(op, r)
        /\ thrown' = <<[call |-> "startProcess", error |-> r]>>
    /\ calls' = Issued("startProcess")
    /\ pc' = "done"
    /\ UNCHANGED <<routeVars, op, callVars, listVars>>

\* await new Promise(resolve => setTimeout(resolve, 500));
VersionWakes ==
    /\ op = "version"
    /\ pc = "versionSleep"
    /\ waits' = waits + 1
    /\ pc' = "versionLogs"
    /\ UNCHANGED <<routeVars, thrown, op, env, proc, attempts, seen, logs, calls,
                   result, listVars>>

\* await versionProcess.getLogs() | await nodeProcess.getLogs()
VersionGetLogsResolves ==
    /\ op = "version"
    /\ pc = "versionLogs"
    /\ logs' = Append(logs, [stdout |-> proc.stdout, stderr |-> proc.stderr])
    /\ calls' = Issued("getLogs")
    /\ pc' = IF logs = NoLogs THEN "nodeEntry" ELSE "respond"
    /\ UNCHANGED <<routeVars, thrown, op, env, proc, attempts, waits, seen, result,
                   listVars>>

VersionGetLogsRejects ==
    /\ op = "version"
    /\ pc = "versionLogs"
    /\ \E r \in Rejections :
        /\ result' = OnReject(op, r)
        /\ thrown' = <<[call |-> "getLogs", error |-> r]>>
    /\ calls' = Issued("getLogs")
    /\ pc' = "done"
    /\ UNCHANGED <<routeVars, op, callVars, listVars>>

\* return c.json({ clawdbot_version, node_version });
VersionRespond ==
    /\ op = "version"
    /\ pc = "respond"
    /\ result' = VersionResponse(logs[1], logs[2])
    /\ pc' = "done"
    /\ UNCHANGED <<routeVars, thrown, op, callVars, calls, listVars>>

----------------------------------------------------------------------------
(* The backend's own steps on the handle *)

\* starting -> running | failed, running -> completed | failed; a terminal
\* status is final.
BackendAdvances ==
    /\ proc.status \in {"starting", "running"}
    /\ \E st \in (IF proc.status = "starting" THEN {"running", "failed"}
                  ELSE {"completed", "failed"}),
          e \in {EmptyText, ErrText} :
        /\ st # "failed" => e = EmptyText
        /\ proc' = [proc EXCEPT !.status = st, !.exitCode = ExitCodeOf(st),
                                !.stderr = e]
    /\ UNCHANGED <<routeVars, thrown, op, pc, env, attempts, waits, seen, logs, calls, result,
                   listVars>>

\* The running command writes: its captured stdout grows.
BackendWrites ==
    /\ proc.status = "running"
    /\ \E o \in Outputs(op) :
        /\ o # proc.stdout
        /\ IsPrefix(proc.stdout, o)
        /\ proc' = [proc EXCEPT !.stdout = o]
    /\ UNCHANGED <<routeVars, thrown, op, pc, env, attempts, waits, seen, logs, calls, result,
                   listVars>>

Invoke ==
    \E o \in CallOps, e \in Envs : (o \notin EnvOps => e = NoEnv) /\ Call(o, e)

\* The steps of the poll loops: a loop test, or a timer that fires.
PollStep ==
    \/ IsR2MountedTest \/ IsR2MountedWakes
    \/ WaitForProcessTest \/ WaitForProcessWakes
    \/ CliLoopTest \/ CliWakes
    \/ ConfigLoopTest \/ ConfigWakes

Next ==
    \/ Invoke
    \/ MountR2StorageNotConfigured
    \/ SyncToR2NotConfigured
    \/ StartProcessResolves
    \/ StartProcessRejects
    \/ IsR2MountedTest
    \/ IsR2MountedWakes
    \/ WaitForProcessTest
    \/ WaitForProcessWakes
    \/ CliLoopTest
    \/ CliWakes
    \/ ConfigLoopTest
    \/ ConfigWakes
    \/ GetLogsResolves
    \/ GetLogsRejects
    \/ Respond
    \/ Return
    \/ VersionStartProcessResolves
    \/ VersionStartProcessRejects
    \/ VersionWakes
    \/ VersionGetLogsResolves
    \/ VersionGetLogsRejects
    \/ VersionRespond
    \/ BackendAdvances
    \/ BackendWrites

Spec == Init /\ [][Next]_vars

\* The event loop runs a ready continuation and fires a due timer; nothing
\* is assumed of the backend.
LiveSpec == Spec /\ WF_vars(PollStep)

----------------------------------------------------------------------------
(* GET /debug/processes *)

\* The longest listing, and the longest listing whose logs are fetched.
MaxProcs == 3
MaxFetched == 2
MaxTime == 1

\* Start times, as seconds of one minute; 9 and 10 differ in their number of
\* digits.
Times == 9..(9 + MaxTime)

\* 'killed' stands for a status the route's statusOrder table does not name.
ListStatuses == Statuses \cup {"killed"}

\* What listProcesses may resolve with: handle i of the listing has id i; a
\* start time may be absent.
Listings(max) ==
    UNION {[1..n -> [status : ListStatuses,
                     startTime : {<<>>} \cup {<<t>> : t \in Times}]] :
           n \in 0..max}

\* Date.prototype.toISOString, cut to its seconds field: two digits, zero
\* padded.
ToISOString(t) == <<Digits[(t \div 10) + 1], Digits[(t % 10) + 1]>>

\* The captured stdout of handle i, when it has any.
HandleOutput(i) == <<"p", Digits[i + 1]>>

\* The record the map callback builds before it awaits.
Data(ps, i) ==
    [id |-> i,
     status |-> ps[i].status,
     startTime |-> IF ps[i].startTime = <<>> THEN <<>>
                   ELSE <<ToISOString(ps[i].startTime[1])>>]

\* data.stdout = logs.stdout || ''; data.stderr = logs.stderr || '';
WithLogs(d, l) ==
    d @@ [stdout |-> OrEmpty(l.stdout), stderr |-> OrEmpty(l.stderr)]

\* The per-record catch with the failure marker left out.
WithLogsErrorAsEmptyLogs(d) == d @@ [stdout |-> EmptyText, stderr |-> EmptyText]

\* catch { data.logs_error = 'Failed to retrieve logs'; }
WithLogsError(d) == d @@ [logs_error |-> "Failed to retrieve logs"]

PendingSlot == [pending |-> TRUE]

\* An array filled in the order the callbacks finish.
PlaceInCompletionOrder(arr, i, d) ==
    LET k == CHOOSE j \in 1..Len(arr) :
                /\ arr[j] = PendingSlot
                /\ \A m \in 1..(j - 1) : arr[m] # PendingSlot
    IN  [arr EXCEPT ![k] = d]

\* Promise.all: the value of the i-th promise is the i-th element.
Place(arr, i, d) == [arr EXCEPT ![i] = d]

\* statusOrder[status] ?? 99
StatusOrder(st) ==
    IF st = "running" THEN 0
    ELSE IF st = "starting" THEN 1
    ELSE IF st = "completed" THEN 2
    ELSE IF st = "failed" THEN 3
    ELSE 99

\* String.prototype.localeCompare on texts of digits: negative, zero or
\* positive as a sorts before, with or after b.
RECURSIVE LocaleCompare(_, _)
LocaleCompare(a, b) ==
    IF a = <<>> /\ b = <<>> THEN 0
    ELSE IF a = <<>> THEN -1
    ELSE IF b = <<>> THEN 1
    ELSE IF Head(a) # Head(b)
        THEN IF DigitValue(Head(a)) < DigitValue(Head(b)) THEN -1 ELSE 1
    ELSE LocaleCompare(Tail(a), Tail(b))

\* An absent start time given the key of the latest time there is.
TimeKeyAbsentLatest(d) ==
    IF d.startTime = <<>> THEN <<"9", "9">> ELSE d.startTime[1]

\* a.startTime as string || ''
TimeKey(d) == IF d.startTime = <<>> THEN EmptyText ELSE d.startTime[1]

\* The comparator with the operands of localeCompare swapped.
CompareOldestFirst(a, b) ==
    IF StatusOrder(a.status) # StatusOrder(b.status)
    THEN StatusOrder(a.status) - StatusOrder(b.status)
    ELSE LocaleCompare(TimeKey(a), TimeKey(b))

\* The comparator of processData.sort.
Compare(a, b) ==
    IF StatusOrder(a.status) # StatusOrder(b.status)
    THEN StatusOrder(a.status) - StatusOrder(b.status)
    ELSE LocaleCompare(TimeKey(b), TimeKey(a))

\* One insertion of a stable sort: x goes right after the last element that
\* does not sort after it.
InsertSorted(sorted, x) ==
    LET k == CHOOSE j \in 0..Len(sorted) :
                /\ j = 0 \/ Compare(sorted[j], x) <= 0
                /\ \A m \in (j + 1)..Len(sorted) : Compare(sorted[m], x) > 0
    IN  SubSeq(sorted, 1, k) \o <<x>> \o SubSeq(sorted, k + 1, Len(sorted))

\* Array.prototype.sort, which is stable.
RECURSIVE Sort(_)
Sort(arr) ==
    IF arr = <<>> THEN <<>>
    ELSE InsertSorted(Sort(SubSeq(arr, 1, Len(arr) - 1)), arr[Len(arr)])

\* return c.json({ count: processes.length, processes: processData });
ProcessesResponse(ps, data) ==
    [kind |-> "json", code |-> 200, count |-> Len(ps), processes |-> Sort(data)]

ListInvoke ==
    /\ pc = "idle"
    /\ op' = "processes"
    /\ pc' = "entry"
    /\ \E flag \in BOOLEAN : includeLogs' = flag
    /\ UNCHANGED <<routeVars, callVars, thrown, calls, result, listed, pending,
                   processData, fetched, reordered>>

\* await sandbox.listProcesses() resolves; without ?logs=true every callback
\* of the map finishes without a remote call and the handler runs to its end.
ListProcessesResolvesNoLogs ==
    /\ pc = "entry"
    /\ op = "processes"
    /\ ~includeLogs
    /\ \E ps \in Listings(MaxProcs) :
        /\ listed' = ps
        /\ processData' = [i \in 1..Len(ps) |-> Data(ps, i)]
        /\ result' = ProcessesResponse(ps, [i \in 1..Len(ps) |-> Data(ps, i)])
    /\ pc' = "done"
    /\ UNCHANGED <<routeVars, callVars, thrown, calls, op, includeLogs, pending, fetched,
                   reordered>>

\* await sandbox.listProcesses() resolves; with ?logs=true every callback of
\* the map issues its getLogs and Promise.all waits for them all.
ListProcessesResolvesWithLogs ==
    /\ pc = "entry"
    /\ op = "processes"
    /\ includeLogs
    /\ \E ps \in Listings(MaxFetched) :
        /\ listed' = ps
        /\ pending' = 1..Len(ps)
        /\ processData' = [i \in 1..Len(ps) |-> PendingSlot]
        /\ fetched' = [i \in 1..Len(ps) |-> "pending"]
        /\ calls' = [calls EXCEPT !.getLogs = Len(ps)]
        /\ IF ps = <<>>
           THEN result' = ProcessesResponse(ps, <<>>) /\ pc' = "done"
           ELSE result' = result /\ pc' = "fetch"
    /\ UNCHANGED <<routeVars, callVars, thrown, op, includeLogs, reordered>>

\* await sandbox.listProcesses() rejects: the catch block of the route.
ListProcessesRejects ==
    /\ pc = "entry"
    /\ op = "processes"
    /\ \E r \in Rejections :
        /\ result' = ErrorResponse(r)
        /\ thrown' = <<[call |-> "listProcesses", error |-> r]>>
    /\ pc' = "done"
    /\ UNCHANGED <<routeVars, callVars, calls, op, listVars>>

\* The getLogs of handle i has settled and its callback finishes with record
\* d; when it was the last one, Promise.all resolves and the handler sorts
\* and answers.
Settle(i, d, how) ==
    /\ pc = "fetch"
    /\ i \in pending
    /\ pending' = pending \ {i}
    /\ fetched' = [fetched EXCEPT ![i] = how]
    /\ reordered' = (reordered \/ \E j \in pending : j < i)
    /\ processData' = Place(processData, i, d)
    /\ IF pending = {i}
       THEN /\ result' = ProcessesResponse(listed, Place(processData, i, d))
            /\ pc' = "done"
       ELSE /\ result' = result
            /\ pc' = "fetch"
    /\ UNCHANGED <<routeVars, callVars, thrown, calls, op, listed, includeLogs>>

\* await p.getLogs() resolves for handle i.
HandleLogsResolve ==
    \E i \in pending :
        Settle(i, WithLogs(Data(listed, i),
                           [stdout |-> HandleOutput(i), stderr |-> EmptyText]),
               "resolved")

\* await p.getLogs() rejects for handle i.
HandleLogsReject ==
    \E i \in pending : Settle(i, WithLogsError(Data(listed, i)), "rejected")

ListReturn ==
    /\ pc = "done"
    /\ op = "processes"
    /\ op' = "idle"
    /\ pc' = "idle"
    /\ calls' = NoCalls
    /\ thrown' = <<>>
    /\ result' = NoResult
    /\ listed' = <<>>
    /\ includeLogs' = FALSE
    /\ pending' = {}
    /\ processData' = <<>>
    /\ fetched' = <<>>
    /\ reordered' = FALSE
    /\ UNCHANGED <<callVars, routeVars>>

ListNext ==
    \/ ListInvoke
    \/ ListProcessesResolvesNoLogs
    \/ ListProcessesResolvesWithLogs
    \/ ListProcessesRejects
    \/ HandleLogsResolve
    \/ HandleLogsReject
    \/ ListReturn

ListSpec == Init /\ [][ListNext]_vars

----------------------------------------------------------------------------
(* Two mount checks in succession *)

\* The caller takes the result of a mount check; the module keeps nothing,
\* and the history remembers what the backend served and what was returned.
ReturnRecorded ==
    /\ pc = "done"
    /\ op \in {"isR2Mounted", "mountR2Storage", "syncToR2"}
    /\ prior' = <<[op |-> op, env |-> env, thrown |-> thrown, logs |-> logs,
                   startProcess |-> calls.startProcess,
                   getLogs |-> calls.getLogs, result |-> result]>>
    /\ op' = "idle"
    /\ pc' = "idle"
    /\ env' = NoEnv
    /\ proc' = NoProc
    /\ attempts' = 0
    /\ waits' = 0
    /\ seen' = <<>>
    /\ logs' = NoLogs
    /\ thrown' = <<>>
    /\ calls' = NoCalls
    /\ result' = NoResult
    /\ UNCHANGED <<listVars, query, found, other>>

\* A caller invokes a mount check; the second call repeats the first.
InvokeAgain ==
    \E o \in {"isR2Mounted", "mountR2Storage", "syncToR2"}, e \in Envs :
        /\ o \notin EnvOps => e = NoEnv
        /\ prior # <<>> => (o = prior[1].op /\ e = prior[1].env)
        /\ Call(o, e)

TwiceNext ==
    \/ InvokeAgain
    \/ MountR2StorageNotConfigured
    \/ SyncToR2NotConfigured
    \/ StartProcessResolves
    \/ StartProcessRejects
    \/ IsR2MountedTest
    \/ IsR2MountedWakes
    \/ WaitForProcessTest
    \/ WaitForProcessWakes
    \/ GetLogsResolves
    \/ GetLogsRejects
    \/ Respond
    \/ ReturnRecorded
    \/ BackendAdvances
    \/ BackendWrites

TwiceSpec == Init /\ [][TwiceNext]_vars

----------------------------------------------------------------------------
(* Two mount checks at the same time *)

\* The second call of isR2Mounted: its position, its handle and its locals.
OtherEntry ==
    [pc |-> "entry", proc |-> NoProc, attempts |-> 0, logs |-> NoLogs,
     result |-> NoResult, startProcess |-> 0, getLogs |-> 0]

\* What the mount command of the second call may have written.
OtherOutputs == {EmptyText, TigrisfsMount}

OtherUnchanged ==
    UNCHANGED <<op, pc, env, proc, attempts, waits, seen, logs, thrown, calls,
                result, listVars, query, found, prior>>

\* A second caller invokes isR2Mounted, whatever the first call is doing.
OtherCalls ==
    /\ other = <<>>
    /\ other' = <<OtherEntry>>
    /\ OtherUnchanged

OtherStartProcessResolves ==
    /\ other # <<>>
    /\ other[1].pc = "entry"
    /\ \E h \in NewHandles(OtherOutputs) :
        /\ h.stderr = EmptyText
        /\ other' = <<[other[1] EXCEPT !.proc = h, !.startProcess = @ + 1,
                                       !.pc = "poll"]>>
    /\ OtherUnchanged

OtherStartProcessRejects ==
    /\ other # <<>>
    /\ other[1].pc = "entry"
    /\ \E r \in Rejections :
        other' = <<[other[1] EXCEPT !.result = OnReject("isR2Mounted", r),
                                   !.startProcess = @ + 1, !.pc = "done"]>>
    /\ OtherUnchanged

OtherTest ==
    /\ other # <<>>
    /\ other[1].pc = "poll"
    /\ other' = <<[other[1] EXCEPT !.pc =
            IF IsR2MountedWaits(other[1].proc.status, other[1].attempts)
            THEN "sleep" ELSE "logs"]>>
    /\ OtherUnchanged

OtherWakes ==
    /\ other # <<>>
    /\ other[1].pc = "sleep"
    /\ other' = <<[other[1] EXCEPT !.attempts = @ + 1, !.pc = "poll"]>>
    /\ OtherUnchanged

OtherGetLogsResolves ==
    /\ other # <<>>
    /\ other[1].pc = "logs"
    /\ other' = <<[other[1] EXCEPT
            !.logs = <<[stdout |-> other[1].proc.stdout,
                        stderr |-> other[1].proc.stderr]>>,
            !.getLogs = @ + 1, !.pc = "respond"]>>
    /\ OtherUnchanged

OtherGetLogsRejects ==
    /\ other # <<>>
    /\ other[1].pc = "logs"
    /\ \E r \in Rejections :
        other' = <<[other[1] EXCEPT !.result = OnReject("isR2Mounted", r),
                                   !.getLogs = @ + 1, !.pc = "done"]>>
    /\ OtherUnchanged

OtherResponds ==
    /\ other # <<>>
    /\ other[1].pc = "respond"
    /\ other' = <<[other[1] EXCEPT
            !.result = Response("isR2Mounted", other[1].logs[1], other[1].proc,
                                other[1].attempts),
            !.pc = "done"]>>
    /\ OtherUnchanged

OtherReturns ==
    /\ other # <<>>
    /\ other[1].pc = "done"
    /\ other' = <<>>
    /\ OtherUnchanged

\* The backend's steps on the handle of the second call.
OtherBackendAdvances ==
    /\ other # <<>>
    /\ other[1].proc.status \in {"starting", "running"}
    /\ \E st \in (IF other[1].proc.status = "starting"
                  THEN {"running", "failed"} ELSE {"completed", "failed"}) :
        other' = <<[other[1] EXCEPT !.proc.status = st,
                                   !.proc.exitCode = ExitCodeOf(st)]>>
    /\ OtherUnchanged

OtherBackendWrites ==
    /\ other # <<>>
    /\ other[1].proc.status = "running"
    /\ \E o \in OtherOutputs :
        /\ o # other[1].proc.stdout
        /\ IsPrefix(other[1].proc.stdout, o)
        /\ other' = <<[other[1] EXCEPT !.proc.stdout = o]>>
    /\ OtherUnchanged

\* The first caller invokes isR2Mounted.
PairInvoke == Call("isR2Mounted", NoEnv)

PairNext ==
    \/ PairInvoke
    \/ StartProcessResolves
    \/ StartProcessRejects
    \/ IsR2MountedTest
    \/ IsR2MountedWakes
    \/ GetLogsResolves
    \/ GetLogsRejects
    \/ Respond
    \/ Return
    \/ BackendAdvances
    \/ BackendWrites
    \/ OtherCalls
    \/ OtherStartProcessResolves
    \/ OtherStartProcessRejects
    \/ OtherTest
    \/ OtherWakes
    \/ OtherGetLogsResolves
    \/ OtherGetLogsRejects
    \/ OtherResponds
    \/ OtherReturns
    \/ OtherBackendAdvances
    \/ OtherBackendWrites

PairSpec == Init /\ [][PairNext]_vars

----------------------------------------------------------------------------
(* GET /debug/logs *)

\* The longest listing /debug/logs looks through.
MaxListed == 2

GatewayCommand == "clawdbot gateway"
Commands == {GatewayCommand, "mount"}

\* Handle i of a listing has the id Digits[i + 1].
HandleId(i) == Digits[i + 1]

\* What listProcesses may resolve with, as /debug/logs reads it.
CommandListings ==
    UNION {[1..n -> [command : Commands, status : Statuses]] : n \in 0..MaxListed}

\* c.req.query('id'): absent, empty, the id of a handle, or of none.
Queries == {<<>>, <<"">>} \cup {<<HandleId(i)>> : i \in 1..(MaxListed + 1)}

\* if (processId)
HasProcessId(q) == q # <<>> /\ q[1] # ""

\* processes.find(p => p.id === processId): the first handle with the id.
FindById(ps, id) ==
    IF \E i \in 1..Len(ps) : HandleId(i) = id
    THEN <<CHOOSE i \in 1..Len(ps) :
            /\ HandleId(i) = id
            /\ \A j \in 1..(i - 1) : HandleId(j) # id>>
    ELSE <<>>

\* The locator's scan: the first handle whose command is the gateway's,
\* whatever its status.
FindExistingClawdbotProcess(ps) ==
    IF \E i \in 1..Len(ps) : ps[i].command = GatewayCommand
    THEN <<CHOOSE i \in 1..Len(ps) :
            /\ ps[i].command = GatewayCommand
            /\ \A j \in 1..(i - 1) : ps[j].command # GatewayCommand>>
    ELSE <<>>

LogsNotFound(id) ==
    [kind |-> "json", code |-> 404, status |-> "not_found",
     message |-> <<"Process ", id, " not found">>,
     stdout |-> EmptyText, stderr |-> EmptyText]

\* The 'no_process' answer given as a failure.
LogsNoProcessAsError ==
    [kind |-> "json", code |-> 500, status |-> "error",
     message |-> <<"Failed to get logs: ", "Unknown error">>,
     stdout |-> EmptyText, stderr |-> EmptyText]

LogsNoProcess ==
    [kind |-> "json", code |-> 200, status |-> "no_process",
     message |-> <<"No Clawdbot process is currently running">>,
     stdout |-> EmptyText, stderr |-> EmptyText]

LogsOk(i, h, l) ==
    [kind |-> "json", code |-> 200, status |-> "ok",
     process_id |-> HandleId(i), process_status |-> h.status,
     stdout |-> OrEmpty(l.stdout), stderr |-> OrEmpty(l.stderr)]

\* The catch block of /debug/logs.
LogsError(r) ==
    [kind |-> "json", code |-> 500, status |-> "error",
     message |-> <<"Failed to get logs: ", ErrorMessage(r)>>,
     stdout |-> EmptyText, stderr |-> EmptyText]

LogsInvoke ==
    /\ pc = "idle"
    /\ op' = "logs"
    /\ pc' = "entry"
    /\ \E q \in Queries : query' = q
    /\ UNCHANGED <<callVars, thrown, calls, result, listVars, found, prior, other>>

\* With an id: await sandbox.listProcesses() resolves, and find looks for
\* the id.
LogsListProcessesResolves ==
    /\ pc = "entry"
    /\ op = "logs"
    /\ HasProcessId(query)
    /\ \E ps \in CommandListings :
        /\ listed' = ps
        /\ found' = FindById(ps, query[1])
        /\ IF FindById(ps, query[1]) = <<>>
           THEN result' = LogsNotFound(query[1]) /\ pc' = "done"
           ELSE result' = result /\ pc' = "processLogs"
    /\ UNCHANGED <<callVars, thrown, calls, op, includeLogs, pending,
                   processData, fetched, reordered, query, prior, other>>

LogsListProcessesRejects ==
    /\ pc = "entry"
    /\ op = "logs"
    /\ HasProcessId(query)
    /\ \E r \in Rejections :
        /\ result' = LogsError(r)
        /\ thrown' = <<[call |-> "listProcesses", error |-> r]>>
    /\ pc' = "done"
    /\ UNCHANGED <<callVars, calls, op, listVars, routeVars>>

\* Without an id: await findExistingClawdbotProcess(sandbox) resolves with
\* the handle the locator found in the listing.
LocatorResolves ==
    /\ pc = "entry"
    /\ op = "logs"
    /\ ~HasProcessId(query)
    /\ \E ps \in CommandListings :
        /\ listed' = ps
        /\ found' = FindExistingClawdbotProcess(ps)
        /\ IF FindExistingClawdbotProcess(ps) = <<>>
           THEN result' = LogsNoProcess /\ pc' = "done"
           ELSE result' = result /\ pc' = "processLogs"
    /\ UNCHANGED <<callVars, thrown, calls, op, includeLogs, pending,
                   processData, fetched, reordered, query, prior, other>>

\* Without an id, and the locator could not list the processes: it answers
\* "none found", which is no error.
LocatorFindsNone ==
    /\ pc = "entry"
    /\ op = "logs"
    /\ ~HasProcessId(query)
    /\ result' = LogsNoProcess
    /\ pc' = "done"
    /\ UNCHANGED <<callVars, thrown, calls, op, listVars, routeVars>>

\* await process.getLogs() resolves.
ProcessLogsResolve ==
    /\ pc = "processLogs"
    /\ op = "logs"
    /\ \E out \in {EmptyText, HandleOutput(found[1])} :
        /\ logs' = <<[stdout |-> out, stderr |-> EmptyText]>>
        /\ result' = LogsOk(found[1], listed[found[1]],
                            [stdout |-> out, stderr |-> EmptyText])
    /\ calls' = Issued("getLogs")
    /\ pc' = "done"
    /\ UNCHANGED <<env, proc, attempts, waits, seen, thrown, op, listVars,
                   routeVars>>

\* await process.getLogs() rejects: the catch block of the route.
ProcessLogsReject ==
    /\ pc = "processLogs"
    /\ op = "logs"
    /\ \E r \in Rejections :
        /\ result' = LogsError(r)
        /\ thrown' = <<[call |-> "getLogs", error |-> r]>>
    /\ calls' = Issued("getLogs")
    /\ pc' = "done"
    /\ UNCHANGED <<callVars, op, listVars, routeVars>>

----------------------------------------------------------------------------
(* GET /debug/gateway-api *)

HttpStatuses == {200, 404}
ContentTypes == {"", "application/json", "text/html"}

GatewayApiResponse(st, ct) ==
    [kind |-> "json", code |-> 200, status |-> st, contentType |-> ct,
     body |-> IF ct = "application/json" THEN "object" ELSE "string"]

GatewayApiInvoke ==
    /\ pc = "idle"
    /\ op' = "gatewayApi"
    /\ pc' = "entry"
    /\ UNCHANGED <<callVars, thrown, calls, result, listVars, routeVars>>

\* await sandbox.containerFetch(...) resolves and the body is read.
ContainerFetchResolves ==
    /\ pc = "entry"
    /\ op = "gatewayApi"
    /\ \E st \in HttpStatuses, ct \in ContentTypes :
        result' = GatewayApiResponse(st, ct)
    /\ pc' = "done"
    /\ UNCHANGED <<callVars, thrown, calls, op, listVars, routeVars>>

\* await sandbox.containerFetch(...) rejects, or await response.json()
\* does: the catch block of the route.
ContainerFetchRejects ==
    /\ pc = "entry"
    /\ op = "gatewayApi"
    /\ \E r \in Rejections, c \in {"containerFetch", "response.json"} :
        /\ result' = ErrorResponse(r)
        /\ thrown' = <<[call |-> c, error |-> r]>>
    /\ pc' = "done"
    /\ UNCHANGED <<callVars, calls, op, listVars, routeVars>>

RouteReturn ==
    /\ pc = "done"
    /\ op \in {"logs", "gatewayApi"}
    /\ op' = "idle"
    /\ pc' = "idle"
    /\ logs' = NoLogs
    /\ calls' = NoCalls
    /\ thrown' = <<>>
    /\ result' = NoResult
    /\ listed' = <<>>
    /\ query' = <<>>
    /\ found' = <<>>
    /\ UNCHANGED <<env, proc, attempts, waits, seen, includeLogs, pending,
                   processData, fetched, reordered, prior, other>>

RouteNext ==
    \/ LogsInvoke
    \/ LogsListProcessesResolves
    \/ LogsListProcessesRejects
    \/ LocatorResolves
    \/ LocatorFindsNone
    \/ ProcessLogsResolve
    \/ ProcessLogsReject
    \/ GatewayApiInvoke
    \/ ContainerFetchResolves
    \/ ContainerFetchRejects
    \/ RouteReturn

RouteSpec == Init /\ [][RouteNext]_vars

\* Every operation of the module.
AllNext == Next \/ ListNext \/ RouteNext

AllSpec == Init /\ [][AllNext]_vars

----------------------------------------------------------------------------
(* Properties of the mount check and of the poll loops *)

Absent(c) == c = <<>>
Present(c) == c # <<>> /\ c # <<"">>

AnyCredentialAbsent ==
    \/ Absent(env.R2_ACCESS_KEY_ID)
    \/ Absent(env.R2_SECRET_ACCESS_KEY)
    \/ Absent(env.CF_ACCOUNT_ID)

\* The marker occurs in text, character by character.
HasMarker(text) ==
    \E i \in 1..Len(text) :
        \A k \in 1..Len(Marker) :
            i + k - 1 <= Len(text) /\ text[i + k - 1] = Marker[k]

\* The boolean a mount-detection operation resolved to.
Mounted == IF op = "syncToR2" THEN result.success ELSE result.value

DetectionOps == {"isR2Mounted", "mountR2Storage", "syncToR2"}
LoopOps == {"isR2Mounted", "mountR2Storage", "cli", "containerConfig"}

MaxWaits(o) ==
    IF o \in MountOps THEN MountMaxAttempts
    ELSE IF o = "cli" THEN CliMaxAttempts
    ELSE ConfigMaxAttempts

AllRunning(sn) == \A i \in 1..Len(sn) : sn[i] = "running"

\* C1: with a credential absent, mountR2Storage returns false and syncToR2
\* returns success=false with error 'R2 storage is not configured', and no
\* remote call (startProcess, status read, getLogs) is issued at any point
\* of the call.
C1_NotConfiguredNoRemoteCall ==
    (op \in EnvOps /\ AnyCredentialAbsent) =>
        /\ calls = NoCalls
        /\ proc = NoProc
        /\ pc \in {"entry", "done"}
        /\ pc = "done" =>
            IF op = "mountR2Storage" THEN result = BoolResult(FALSE)
            ELSE /\ result.success = FALSE
                 /\ result.error = "R2 storage is not configured"

C1_Witness ==
    /\ pc = "done"
    /\ op = "mountR2Storage"
    /\ Present(env.R2_ACCESS_KEY_ID)
    /\ Present(env.R2_SECRET_ACCESS_KEY)
    /\ Absent(env.CF_ACCOUNT_ID)
    /\ result = BoolResult(FALSE)
    /\ calls = NoCalls

\* C2: when startProcess and getLogs succeeded, mount detection answers
\* mounted=true for stdout holding the tigrisfs marker and mounted=false for
\* empty stdout and for another filesystem (s3fs) at the same mount path;
\* the verdict is positive only if the marker is in stdout.
C2_VerdictFollowsMarker ==
    (pc = "done" /\ op \in DetectionOps /\ logs # NoLogs) =>
        LET out == logs[1].stdout IN
        /\ out = TigrisfsMount => Mounted
        /\ out \in {EmptyText, S3fsMount} => ~Mounted
        /\ Mounted <=> HasMarker(out)
        /\ op = "syncToR2" =>
            result = IF HasMarker(out) THEN SyncMounted ELSE SyncNotMounted

C2_Witness ==
    /\ pc = "done"
    /\ op = "isR2Mounted"
    /\ logs # NoLogs
    /\ logs[1].stdout = S3fsMount
    /\ result = BoolResult(FALSE)

\* C3: when startProcess rejects with an Error, isR2Mounted (and so
\* mountR2Storage) returns false and syncToR2 returns success=false with the
\* Error's message unchanged in details.
C3_StartRejectionPreserved ==
    (/\ pc = "done"
     /\ op \in DetectionOps
     /\ thrown # <<>>
     /\ thrown[1].call = "startProcess"
     /\ thrown[1].error.isError) =>
        /\ ~Mounted
        /\ calls.getLogs = 0
        /\ op = "syncToR2" =>
            /\ result.error = "Failed to check mount status"
            /\ result.details = thrown[1].error.message

C3_Witness ==
    /\ pc = "done"
    /\ op = "syncToR2"
    /\ thrown = <<[call |-> "startProcess",
                   error |-> [isError |-> TRUE, message |-> "Command failed"]]>>
    /\ result.success = FALSE
    /\ result.details = "Command failed"

InLoop == op \in LoopOps /\ pc \in {"poll", "sleep"}

WaitsBounded ==
    op \in LoopOps =>
        /\ waits <= MaxWaits(op)
        /\ waits * WaitMs(op) <= (IF op = "cli" THEN 15000 ELSE 2000)

\* C4: every poll loop ends whatever the backend does: isR2Mounted and
\* /debug/container-config wait at most 10 times 200 ms, /debug/cli at most
\* 30 times 500 ms, and a call that is in its loop gets to the log fetch.
C4_PollLoopsTerminate == []WaitsBounded /\ (InLoop ~> pc = "logs")

C4_Witness ==
    /\ op = "cli"
    /\ pc = "logs"
    /\ waits = CliMaxAttempts
    /\ Len(seen) = CliMaxAttempts
    /\ AllRunning(seen)
    /\ proc.status = "running"

\* The bound of the loop ran out with every check having seen 'running';
\* isR2Mounted reads the status once more in its last loop test.
TimedOut ==
    /\ op \in LoopOps
    /\ AllRunning(seen)
    /\ Len(seen) = IF op \in MountOps THEN MountMaxAttempts + 1
                   ELSE MaxWaits(op)

\* C5 as claimed: after a timeout /debug/cli returns a normal body whose
\* status is the last status the loop saw ('running') with attempts = 30,
\* even if the backend finished the handle after the last check.
C5_TimeoutReportsLastSeen ==
    (pc = "done" /\ op = "cli" /\ TimedOut /\ logs # NoLogs) =>
        /\ result.code = 200
        /\ result.attempts = CliMaxAttempts
        /\ result.status = "running"

\* C5 amended: a timeout is no error: the operation still fetches the logs
\* and, when that fetch succeeds, answers normally: isR2Mounted with the
\* verdict of the snapshot, /debug/cli (attempts = 30) and
\* /debug/container-config with the handle's status as it is when the body
\* is built, which need not be the status the loop saw last.
C5_TimeoutReportsCurrentStatus ==
    [][(TimedOut /\ pc = "respond" /\ pc' = "done") =>
        /\ calls.getLogs = 1
        /\ waits = MaxWaits(op)
        /\ IF op \in MountOps
           THEN result' = BoolResult(HasMarker(logs[1].stdout))
           ELSE /\ result'.code = 200
                /\ result'.status = proc.status
                /\ result'.exitCode = proc.exitCode
                /\ result'.stderr = logs[1].stderr
                /\ op = "cli" =>
                    /\ result'.attempts = CliMaxAttempts
                    /\ result'.stdout = logs[1].stdout]_vars

C5_Witness ==
    /\ pc = "done"
    /\ op = "cli"
    /\ TimedOut
    /\ logs # NoLogs
    /\ result.code = 200
    /\ result.attempts = CliMaxAttempts
    /\ result.status = "completed"

FirstCheckTerminal ==
    /\ op \in LoopOps
    /\ pc \in {"logs", "respond", "done"}
    /\ seen # <<>>
    /\ seen[1] \in Terminal

\* C6 as claimed: at every poll loop, a handle that is terminal at the first
\* status check costs zero timed waits before the logs are fetched.
C6_TerminalAtFirstCheckNoWait == FirstCheckTerminal => waits = 0

\* C6 amended: a handle that is terminal at the first status check ends the
\* loop at that check; isR2Mounted has then waited zero times, /debug/cli and
\* /debug/container-config exactly once, their wait preceding the check.
C6_TerminalAtFirstCheckEndsLoop ==
    FirstCheckTerminal =>
        /\ Len(seen) = 1
        /\ waits = IF op \in MountOps THEN 0 ELSE 1

C6_Witness ==
    /\ op = "containerConfig"
    /\ pc = "logs"
    /\ seen = <<"completed">>
    /\ waits = 1

\* C7: while attempts remain, a poll loop ends only on 'completed' or
\* 'failed': a handle seen 'starting' is polled again.
C7_LoopEndsOnlyOnTerminal ==
    (op \in LoopOps /\ pc = "logs" /\ attempts < MaxWaits(op)) =>
        seen[Len(seen)] \in Terminal

----------------------------------------------------------------------------
(* Properties of /debug/processes *)

Listed200 == op = "processes" /\ pc = "done" /\ result.code = 200

\* The rank the listing is meant to follow.
Rank(st) ==
    CASE st = "running" -> 0
      [] st = "starting" -> 1
      [] st = "completed" -> 2
      [] st = "failed" -> 3
      [] OTHER -> 99

KnownAndTimed ==
    \A i \in 1..Len(listed) :
        listed[i].status \in Statuses /\ listed[i].startTime # <<>>

StartOf(r) == listed[r.id].startTime[1]

\* C8: for handles with statuses among running, starting, completed, failed
\* and start times present, the listing answered is a permutation of the
\* backend's, ordered by status rank, then by start time with the most
\* recent first, records equal in both keeping their listing order.
C8_ListingSortedStable ==
    (Listed200 /\ KnownAndTimed) =>
        LET out == result.processes IN
        /\ Len(out) = Len(listed)
        /\ result.count = Len(listed)
        /\ {out[i].id : i \in 1..Len(out)} = 1..Len(listed)
        /\ \A i \in 1..Len(out) : out[i].status = listed[out[i].id].status
        /\ \A i, j \in 1..Len(out) : i < j =>
            /\ Rank(out[i].status) <= Rank(out[j].status)
            /\ out[i].status = out[j].status =>
                /\ StartOf(out[i]) >= StartOf(out[j])
                /\ StartOf(out[i]) = StartOf(out[j]) => out[i].id < out[j].id

C8_Witness ==
    /\ Listed200
    /\ KnownAndTimed
    /\ Len(listed) = 3
    /\ listed[1].status = "failed"
    /\ listed[2] = [status |-> "running", startTime |-> <<9>>]
    /\ listed[3] = [status |-> "running", startTime |-> <<10>>]
    /\ result.processes[1].id = 3
    /\ result.processes[2].id = 2
    /\ result.processes[3].id = 1

Has(r, f) == f \in DOMAIN r

\* C9: with logs requested, a getLogs that rejects fails its own record
\* only: the answer is still the listing, one record per process; the record
\* of a rejected fetch carries logs_error and neither stdout nor stderr, and
\* every other record carries its own stdout and stderr and no logs_error.
C9_LogFailureStaysOnItsRecord ==
    (op = "processes" /\ pc = "done" /\ includeLogs /\ thrown = <<>>) =>
        /\ result.code = 200
        /\ Len(result.processes) = Len(listed)
        /\ {result.processes[i].id : i \in 1..Len(listed)} = 1..Len(listed)
        /\ \A i \in 1..Len(listed) :
            LET r == result.processes[i] IN
            IF fetched[r.id] = "rejected"
            THEN /\ Has(r, "logs_error")
                 /\ r.logs_error = "Failed to retrieve logs"
                 /\ ~Has(r, "stdout")
                 /\ ~Has(r, "stderr")
            ELSE /\ ~Has(r, "logs_error")
                 /\ Has(r, "stdout") /\ r.stdout = HandleOutput(r.id)
                 /\ Has(r, "stderr") /\ r.stderr = EmptyText

C9_Witness ==
    /\ Listed200
    /\ includeLogs
    /\ Len(listed) = 2
    /\ fetched = <<"rejected", "resolved">>
    /\ \E i \in 1..2 : Has(result.processes[i], "logs_error")
    /\ \E i \in 1..2 : Has(result.processes[i], "stdout")

\* The ids of the listing in the order the sort alone gives them.
SortedIds ==
    LET base == Sort([i \in 1..Len(listed) |-> Data(listed, i)])
    IN  [i \in 1..Len(listed) |-> base[i].id]

\* C10: whatever the order in which the concurrent getLogs calls settle, the
\* records answered are in the order of the sort of the listing, and each
\* record holds the logs of its own handle.
C10_OrderIndependentOfCompletion ==
    (Listed200 /\ includeLogs) =>
        /\ [i \in 1..Len(listed) |-> result.processes[i].id] = SortedIds
        /\ \A i \in 1..Len(listed) :
            LET r == result.processes[i] IN
            /\ r.status = listed[r.id].status
            /\ Has(r, "stdout") => r.stdout = HandleOutput(r.id)
            /\ Has(r, "logs_error") <=> fetched[r.id] = "rejected"

C10_Witness ==
    /\ Listed200
    /\ includeLogs
    /\ reordered
    /\ Len(listed) = 2
    /\ listed[1] = listed[2]
    /\ result.processes[1].id = 1
    /\ result.processes[2].id = 2

----------------------------------------------------------------------------
(* Error handling *)

\* What an operation hands to its caller when a remote call failed.
Structured(o, r) ==
    IF o \in MountOps THEN r = BoolResult(FALSE)
    ELSE IF o = "syncToR2"
        THEN r.kind = "sync" /\ ~r.success /\ Has(r, "error") /\ Has(r, "details")
    ELSE r.kind = "json" /\ r.code = 500
            /\ (Has(r, "error") \/ (r.status = "error" /\ Has(r, "message")))

\* C11: a remote call that rejects never leaves an operation with an
\* uncaught failure: the operation is over at once and what it hands to its
\* caller is false (isR2Mounted, mountR2Storage), success=false with error
\* and details (syncToR2), or a JSON error body with code 500 (the debug
\* routes); whatever happened, a finished operation has returned a value.
C11_RemoteFailureIsStructured ==
    /\ thrown # <<>> => (pc = "done" /\ Structured(op, result))
    /\ pc = "done" => result.kind \in {"bool", "sync", "json"}

C11_Witness ==
    /\ op = "version"
    /\ pc = "done"
    /\ thrown # <<>>
    /\ thrown[1].call = "getLogs"
    /\ Len(logs) = 1
    /\ result.code = 500

\* What operation o returns when its check ran and the marker was absent.
MarkerAbsentResult(o) ==
    Response(o, [stdout |-> S3fsMount, stderr |-> EmptyText], NoProc, 0)

CheckFailed == op \in DetectionOps /\ pc = "done" /\ thrown # <<>>

\* C12 as stated: when a mount check cannot be carried out, every mount
\* detection operation returns something that differs from what it returns
\* when the check ran and the marker was absent.
C12_CheckFailureDistinguishable ==
    CheckFailed => result # MarkerAbsentResult(op)

\* C12: when the check cannot be carried out, syncToR2 returns success=false
\* as it does for an absent marker, with another error text and the failure's
\* message in details; isR2Mounted and mountR2Storage return the same bare
\* false as for an absent marker.
C12_OnlySyncDistinguishes ==
    CheckFailed =>
        IF op = "syncToR2"
        THEN /\ result.success = MarkerAbsentResult(op).success
             /\ result.error # MarkerAbsentResult(op).error
             /\ result.details = ErrorMessage(thrown[1].error)
        ELSE result = MarkerAbsentResult(op)

C12_Witness ==
    /\ CheckFailed
    /\ op = "syncToR2"
    /\ thrown[1].call = "getLogs"
    /\ result.details = "Process failed"

----------------------------------------------------------------------------
(* Statelessness *)

\* A mount check is over and the backend served it what it served the
\* check before: the same rejection, or the same log snapshot.
ServedAsBefore ==
    /\ op \in DetectionOps
    /\ pc = "done"
    /\ prior # <<>>
    /\ prior[1].op = op
    /\ prior[1].env = env
    /\ prior[1].thrown = thrown
    /\ prior[1].logs = logs

----------------------------------------------------------------------------
(* The core only observes *)

\* A step of the operation itself: its position, its locals or what it has
\* issued, read or returned changes.
CoreStep ==
    <<pc, attempts, waits, seen, logs, calls, thrown, result>>' #
        <<pc, attempts, waits, seen, logs, calls, thrown, result>>

\* The operation holds a handle before and after the step: it neither
\* returns to its caller nor starts its next process.
HoldsHandle == proc.status # "none" /\ pc' # "idle" /\ pc # "nodeEntry"

\* The backend's lifecycle of a handle: the status moves forward only, the
\* exit code comes with the terminal status, and output is only added.
BackendMade ==
    /\ proc'.status # "none"
    /\ proc'.status # proc.status =>
        /\ proc.status \in {"starting", "running"}
        /\ proc'.status \in (IF proc.status = "starting"
                              THEN {"running", "failed"}
                              ELSE {"completed", "failed"})
    /\ proc'.exitCode = ExitCodeOf(proc'.status)
    /\ IsPrefix(proc.stdout, proc'.stdout)

\* C14: no step of an operation (a status read, a timed wait, the end of a
\* loop by timeout, a log fetch, the answer) changes the status, the exit
\* code, the output or the existence of the handle it holds, and no step of
\* a route changes a listed handle; a handle changes only in steps of the
\* backend, along the backend's lifecycle.
C14_CoreOnlyObserves ==
    [][/\ (HoldsHandle /\ CoreStep) => proc' = proc
       /\ (HoldsHandle /\ proc' # proc) => (~CoreStep /\ BackendMade)
       /\ (listed # <<>> /\ pc' # "idle") => listed' = listed]_vars

C14_Witness ==
    /\ op = "isR2Mounted"
    /\ pc = "done"
    /\ TimedOut
    /\ result = BoolResult(FALSE)
    /\ proc.status = "running"
    /\ proc.stdout = TigrisfsMount

----------------------------------------------------------------------------
(* Concurrent mount checks *)

\* How far a status is along the lifecycle of a handle.
Progress(st) ==
    IF st = "starting" THEN 0 ELSE IF st = "running" THEN 1 ELSE 2

\* A snapshot l was taken from handle h: output is only added to a handle.
SnapshotOf(l, h) == IsPrefix(l.stdout, h.stdout)

\* C15: of two isR2Mounted calls in progress at the same time, each has
\* issued its own startProcess, one and no more, as soon as it is past its
\* entry, whatever the other is doing; the statuses it read and the log
\* snapshot it fetched are those of the handle its own startProcess returned;
\* and its verdict is the marker test on its own snapshot.
C15_EachCheckOwnHandle ==
    /\ (op = "isR2Mounted" /\ pc \notin {"idle", "entry"}) =>
        /\ calls.startProcess = 1
        /\ seen # <<>> => Progress(seen[Len(seen)]) <= Progress(proc.status)
        /\ logs # NoLogs =>
            /\ SnapshotOf(logs[1], proc)
            /\ pc = "done" => result = BoolResult(HasMarker(logs[1].stdout))
    /\ (other # <<>> /\ other[1].pc # "entry") =>
        /\ other[1].startProcess = 1
        /\ other[1].logs # NoLogs =>
            /\ SnapshotOf(other[1].logs[1], other[1].proc)
            /\ other[1].pc = "done" =>
                other[1].result = BoolResult(HasMarker(other[1].logs[1].stdout))

C15_Witness ==
    /\ op = "isR2Mounted"
    /\ pc = "done"
    /\ other # <<>>
    /\ other[1].pc = "done"
    /\ calls.startProcess = 1
    /\ other[1].startProcess = 1
    /\ proc.stdout = S3fsMount
    /\ other[1].proc.stdout = TigrisfsMount
    /\ result = BoolResult(FALSE)
    /\ other[1].result = BoolResult(TRUE)

----------------------------------------------------------------------------
(* Properties of /debug/logs *)

LogsDone == op = "logs" /\ pc = "done"

NoListedHandleHasId ==
    \A i \in 1..Len(listed) : HandleId(i) # query[1]

\* C16: /debug/logs without an id (an empty ?id= counts as none), when the
\* locator found no process, answers 'no_process' with code 200 and has not
\* called getLogs; with an id that no listed handle has it answers
\* 'not_found' and has not called getLogs; it answers 'error' only when a
\* remote call rejected, and then always.
C16_NoProcessIsNotAnError ==
    LogsDone =>
        /\ (~HasProcessId(query) /\ found = <<>>) =>
            /\ result.status = "no_process"
            /\ result.code = 200
            /\ calls.getLogs = 0
        /\ (HasProcessId(query) /\ thrown = <<>> /\ NoListedHandleHasId) =>
            /\ result.status = "not_found"
            /\ result.code = 404
            /\ calls.getLogs = 0
        /\ result.status = "error" <=> thrown # <<>>

C16_Witness ==
    /\ LogsDone
    /\ query = <<>>
    /\ Len(listed) = 2
    /\ found = <<>>
    /\ result = LogsNoProcess

----------------------------------------------------------------------------
(* Properties of /debug/container-config *)

\* The texts of ConfigOutputs that are JSON documents.
ValidJsonTexts ==
    {<<"{", "}">>, <<"{", "}", "\n">>, <<"n", "u", "l", "l">>, <<"0">>}

ConfigAnswered ==
    op = "containerConfig" /\ pc = "done" /\ thrown = <<>>

\* C17: once the logs are in, /debug/container-config answers with code 200
\* whatever stdout holds; config is non-null only if stdout is a JSON
\* document, it is null for any other text, and whenever config is null the
\* raw field holds the captured stdout as it was.
C17_UnparsedConfigKeepsRaw ==
    ConfigAnswered =>
        /\ result.code = 200
        /\ result.config # JsNull => logs[1].stdout \in ValidJsonTexts
        /\ logs[1].stdout \notin ValidJsonTexts => result.config = JsNull
        /\ result.config = JsNull => result.raw = <<logs[1].stdout>>

C17_Witness ==
    /\ ConfigAnswered
    /\ logs[1].stdout = <<"{">>
    /\ result.config = JsNull
    /\ result.raw = <<<<"{">>>>

Timed(r) == listed[r.id].startTime # <<>>

\* C18: in the listing answered, a record without startTime comes after every
\* record of its status that has one, and a record whose status is none of
\* running, starting, completed, failed has rank 99 and comes after every
\* record whose status is one of them.
C18_AbsentAndUnknownLast ==
    Listed200 =>
        LET out == result.processes IN
        \A i, j \in 1..Len(out) : i < j =>
            /\ (out[i].status = out[j].status /\ Timed(out[j])) => Timed(out[i])
            /\ out[j].status \in Statuses => out[i].status \in Statuses
            /\ out[i].status \notin Statuses => StatusOrder(out[i].status) = 99

C18_Witness ==
    /\ Listed200
    /\ Len(listed) = 3
    /\ listed[1] = [status |-> "killed", startTime |-> <<10>>]
    /\ listed[2] = [status |-> "running", startTime |-> <<>>]
    /\ listed[3] = [status |-> "running", startTime |-> <<9>>]
    /\ result.processes[1].id = 3
    /\ result.processes[2].id = 2
    /\ result.processes[3].id = 1

----------------------------------------------------------------------------
(* Properties of /debug/version *)

VersionAnswered == op = "version" /\ pc = "done" /\ thrown = <<>>

\* The first non-empty stream of a snapshot, stdout before stderr.
FirstNonEmpty(l) ==
    IF l.stdout # EmptyText THEN l.stdout
    ELSE IF l.stderr # EmptyText THEN l.stderr
    ELSE EmptyText

\* The texts a version command writes, without the white space around them.
Trimmed(t) ==
    CASE t = <<"v", "1", "\n">> -> <<"v", "1">>
      [] t = <<"\n">> -> EmptyText
      [] OTHER -> t

\* C19 as stated: both versions answered are the trimmed first non-empty
\* stream of their command, stdout before stderr.
C19_BothVersionsFallBackToStderr ==
    VersionAnswered =>
        /\ result.clawdbot_version = Trimmed(FirstNonEmpty(logs[1]))
        /\ result.node_version = Trimmed(FirstNonEmpty(logs[2]))

\* C19: the clawdbot version answered is the trimmed first non-empty stream
\* of 'clawdbot --version', stdout before stderr; the node version is the
\* trimmed stdout of 'node --version' and is empty when stdout is, whatever
\* stderr holds.
C19_OnlyClawdbotFallsBackToStderr ==
    VersionAnswered =>
        /\ result.clawdbot_version = Trimmed(FirstNonEmpty(logs[1]))
        /\ result.node_version = Trimmed(logs[2].stdout)

C19_Witness ==
    /\ VersionAnswered
    /\ logs[1] = [stdout |-> EmptyText, stderr |-> ErrText]
    /\ logs[2] = [stdout |-> EmptyText, stderr |-> ErrText]
    /\ result.clawdbot_version = ErrText
    /\ result.node_version = EmptyText

----------------------------------------------------------------------------
(* Properties of /debug/cli *)

\* The loop of /debug/cli is over.
CliLoopOver ==
    op = "cli" /\ proc.status # "none" /\ pc \in {"logs", "respond", "done"}

\* How many checks read 'running' before the first that read another status.
LeadingRunning(sn) ==
    CHOOSE k \in 0..Len(sn) :
        /\ \A i \in 1..k : sn[i] = "running"
        /\ k < Len(sn) => sn[k + 1] # "running"

\* C20: once the loop of /debug/cli is over, attempts is in 0..30; it is 30
\* exactly when 30 checks were made and all read 'running'; otherwise it is
\* the number of checks that read 'running' before the first check that read
\* another status, that check was the last, and the timed waits performed
\* are one more than attempts; the body answered reports this counter.
C20_AttemptsCountsRunningChecks ==
    CliLoopOver =>
        /\ attempts \in 0..CliMaxAttempts
        /\ waits = Len(seen)
        /\ attempts = CliMaxAttempts <=>
                (Len(seen) = CliMaxAttempts /\ AllRunning(seen))
        /\ attempts < CliMaxAttempts =>
            /\ attempts = LeadingRunning(seen)
            /\ Len(seen) = attempts + 1
            /\ waits = attempts + 1
        /\ (pc = "done" /\ thrown = <<>>) => result.attempts = attempts

C20_Witness ==
    /\ CliLoopOver
    /\ pc = "done"
    /\ seen = <<"running", "running", "completed">>
    /\ waits = 3
    /\ result.code = 200
    /\ result.attempts = 2

----------------------------------------------------------------------------
(* Properties of mountR2Storage *)

MountR2StorageDone == op = "mountR2Storage" /\ pc = "done"

\* The loop of isR2Mounted is over: a check read a status other than
\* 'running', or the ten waits are spent.
PollingEnded ==
    /\ seen # <<>>
    /\ seen[Len(seen)] # "running" \/ attempts = MountMaxAttempts

\* The loop ran out with the command running, and the snapshot fetched then
\* held no output yet.
TimedOutBeforeOutput ==
    TimedOut /\ logs # NoLogs /\ logs[1].stdout = EmptyText

\* C21: mountR2Storage returns true only if the three credentials are
\* present, one startProcess was issued and resolved, polling had ended, and
\* the one log snapshot fetched from that handle held the tigrisfs marker;
\* when the loop timed out with the command running and the snapshot held no
\* output it returns false, whatever the command writes afterwards.
C21_TrueOnlyOnMarkerSnapshot ==
    MountR2StorageDone =>
        /\ result = BoolResult(TRUE) =>
            /\ Present(env.R2_ACCESS_KEY_ID)
            /\ Present(env.R2_SECRET_ACCESS_KEY)
            /\ Present(env.CF_ACCOUNT_ID)
            /\ thrown = <<>>
            /\ calls.startProcess = 1
            /\ calls.getLogs = 1
            /\ proc.status # "none"
            /\ PollingEnded
            /\ Len(logs) = 1
            /\ SnapshotOf(logs[1], proc)
            /\ HasMarker(logs[1].stdout)
        /\ TimedOutBeforeOutput => result = BoolResult(FALSE)

C21_Witness ==
    /\ MountR2StorageDone
    /\ TimedOutBeforeOutput
    /\ result = BoolResult(FALSE)
    /\ proc.status = "completed"
    /\ proc.stdout = TigrisfsMount

====
